---- MODULE Spec2Model ----
(***************************************************************************)
(* State-machine model of the NYC taxi ingestion scripts                   *)
(*   src/04-analytics-engineering/setup/load_taxi_to_gcs_bq.py  (main)     *)
(*   src/03-data-warehouse/homework/load-yellow-taxi-data.py    (__main__) *)
(*                                                                         *)
(* A month token is the two-character string f"{m:02d}", kept as its pair  *)
(* of digits <<d1, d2>>.  For a fixed taxi type, year, bucket and prefix   *)
(* the local path, the blob name and the gs:// URI of an item are fixed    *)
(* format strings around that token, so a token stands for all three.      *)
(***************************************************************************)
EXTENDS Integers, Sequences, FiniteSets, TLC

\* ------------------------------------------------------------------ bounds
\* Largest end written in a range expression of the pipeline runs.
MaxRangeNum == 4
\* Largest number written in a list expression of the pipeline runs.
MaxListNum == 1
\* Longest list expression of the pipeline runs.
MaxListLen == 2
\* Longest list and largest batch size given to chunked on its own.
MaxChunkLen == 4
MaxChunkSize == 3

\* ------------------------------------------------------- program constants
\* upload_to_gcs(..., max_retries: int = 3)
max_retries == 3
\* chunked(months, size=3)
BATCH_SIZE == 3
\* months_from_args: "start < 1", "m < 1"
MIN_MONTH == 1
\* months_from_args: "end > 12", "m > 12"
MAX_MONTH == 12
MAX_DOWNLOAD_WORKERS == 4
MAX_UPLOAD_WORKERS == 4
\* MONTHS = [f"{i:02d}" for i in range(1, 7)]
HW_LAST_MONTH == 6

VARIABLES
    expr,             \* the --months argument
    infra,            \* how far the infrastructure checks have got
    peer,             \* a second run staging the first item: its call, its file
    pc,               \* where the main thread is
    exitCode,         \* -1 while the process runs, then its exit status
    months,           \* months_from_args(args.months)
    batchNo,          \* how many batches the for loop has taken from chunked
    dl,               \* download futures of the current batch, by position
    downloaded_files, \* paths (tokens) in completion order
    up,               \* upload_to_gcs calls of the current batch, by position
    uploaded_uris,    \* URIs (tokens) in completion order
    fs,               \* local directory: token -> content of the file
    store,            \* bucket: token -> content of the blob
    verified,         \* tokens for which an existence check returned True
    retrieved,        \* tokens for which download_file returned the path
    cleaned,          \* tokens on which safe_remove_local was called
    fetchCalls,       \* download_file calls that have returned
    fetchOk,          \* ... of which returned a path
    transfers,        \* urlretrieve calls made
    stageCalls,       \* upload_to_gcs calls that have returned
    queue,            \* sorted(uploaded_uris), fixed when the load loop starts
    loads,            \* URIs handed to load_table_from_uri, in order
    job,              \* the load job the main thread is waiting on
    success,          \* homework script: success += int(ok)
    chunkIn,          \* chunked on its own: lst
    chunkSize,        \* chunked on its own: size
    chunkOut          \* chunked on its own: list(chunked(lst, size))

vars == <<expr, infra, peer, pc, exitCode, months, batchNo, dl, downloaded_files,
          up, uploaded_uris, fs, store, verified, retrieved, cleaned,
          fetchCalls, fetchOk, transfers, stageCalls, queue, loads, job,
          success, chunkIn, chunkSize, chunkOut>>

\* ----------------------------------------------------------------- helpers
Range(s) == {s[i] : i \in 1..Len(s)}

Min(a, b) == IF a < b THEN a ELSE b

\* Python's lst[i:j] for 0 <= i <= j (0-based, j clamped to len(lst)).
Slice(lst, i, j) == SubSeq(lst, i + 1, Min(j, Len(lst)))

SeqsUpTo(S, n) == UNION {[1..k -> S] : k \in 0..n}

\* f"{m:02d}" for 0 <= m <= 99
Fmt2(m) == <<m \div 10, m % 10>>

\* int(s) for a string of decimal digits, kept as the sequence of its digits.
RECURSIVE int(_)
int(s) == IF Len(s) = 0 THEN 0
          ELSE 10 * int(SubSeq(s, 1, Len(s) - 1)) + s[Len(s)]

\* str.__le__ on two month tokens (two characters each)
TokLeq(a, b) == a[1] < b[1] \/ (a[1] = b[1] /\ a[2] <= b[2])

RECURSIVE Insert(_, _)
Insert(x, s) == IF s = <<>> THEN <<x>>
                ELSE IF TokLeq(x, Head(s)) THEN <<x>> \o s
                ELSE <<Head(s)>> \o Insert(x, Tail(s))

\* sorted() forgotten: the list as it is.
unsorted(s) == s

RECURSIVE sorted(_)
sorted(s) == IF s = <<>> THEN <<>> ELSE Insert(Head(s), sorted(Tail(s)))

\* ------------------------------------------------------------------ chunked
\* range(0, len(lst), size + 1): one item is lost between two chunks.
RECURSIVE ChunkFromSkipping(_, _, _)
ChunkFromSkipping(lst, size, i) ==
    IF i >= Len(lst) THEN <<>>
    ELSE <<Slice(lst, i, i + size)>>
         \o ChunkFromSkipping(lst, size, i + size + 1)

RECURSIVE ChunkFrom(_, _, _)
ChunkFrom(lst, size, i) ==
    IF i >= Len(lst) THEN <<>>
    ELSE <<Slice(lst, i, i + size)>> \o ChunkFrom(lst, size, i + size)

chunked(lst, size) == ChunkFrom(lst, size, 0)

\* --------------------------------------------------------- months_from_args
\* The argument is a range  [form |-> "range", lo, hi]  ("lo-hi") or a list
\* [form |-> "list", parts]  ("p1,p2,..."); numbers are digit strings.
\* The result is [raised, val]: raised for a ValueError, else val the list
\* of tokens returned.
\* range(start, end) for range(start, end + 1): the last month is lost.
RangeTokensShort(a, b) == [k \in 1..(b - a) |-> Fmt2(a + k - 1)]

RangeTokens(a, b) == [k \in 1..(b - a + 1) |-> Fmt2(a + k - 1)]

ValueError == [raised |-> TRUE, val |-> <<>>]

Returned(v) == [raised |-> FALSE, val |-> v]

months_from_args(e) ==
    IF e.form = "range"
    THEN IF Len(e.lo) = 0 \/ Len(e.hi) = 0 THEN ValueError
         ELSE LET start == int(e.lo)
                  end   == int(e.hi)
              IN IF start < MIN_MONTH \/ end > MAX_MONTH \/ start > end
                 THEN ValueError
                 ELSE Returned(RangeTokens(start, end))
    ELSE LET parts == SelectSeq(e.parts, LAMBDA p : Len(p) > 0)
         IN IF \E i \in 1..Len(parts) :
                   int(parts[i]) < MIN_MONTH \/ int(parts[i]) > MAX_MONTH
            THEN ValueError
            ELSE Returned([i \in 1..Len(parts) |-> Fmt2(int(parts[i]))])

\* ------------------------------------------------------------- environment
Tokens == {Fmt2(m) : m \in MIN_MONTH..MAX_MONTH}

\* safe_remove_local: os.remove if the path exists; an exception of os.remove
\* is printed and swallowed, the file then stays as it was.
safe_remove_local(f) == IF f = "absent" THEN {"absent"} ELSE {"absent", f}

\* One more urlretrieve after one that raised.
download_file_retrying(f) ==
    IF f \in {"partial", "full"}
    THEN {[f |-> f, ret |-> "path", calls |-> 0]}
    ELSE {[f |-> "full", ret |-> "path", calls |-> n] : n \in {1, 2}}
         \cup {[f |-> x, ret |-> "None", calls |-> 2] :
                   x \in {f, "partial"}}

\* os.path.exists alone: a file of size zero is taken for a download.
download_file_exists_only(f) ==
    IF f # "absent"
    THEN {[f |-> f, ret |-> "path", calls |-> 0]}
    ELSE {[f |-> "full", ret |-> "path", calls |-> 1]}
         \cup {[f |-> x, ret |-> "None", calls |-> 1] :
                   x \in {f, "partial"}}

\* download_file on a path whose content is f ("absent", "empty", "partial"
\* or "full"): the content afterwards, the value returned and the number
\* of urlretrieve calls made.  A urlretrieve that raises leaves the path as it
\* was or holding the part of the file that had arrived.
download_file(f) ==
    IF f \in {"partial", "full"}
    THEN {[f |-> f, ret |-> "path", calls |-> 0]}
    ELSE {[f |-> "full", ret |-> "path", calls |-> 1]}
         \cup {[f |-> x, ret |-> "None", calls |-> 1] :
                   x \in {f, "partial"}}

\* ------------------------------------------------------------ upload_to_gcs
\* One call of upload_to_gcs: pc is the next external call of the for loop,
\* attempt the loop variable, ret the value returned ("none" while the call
\* runs).  A call that has returned keeps nothing but ret.
NewCall == [pc |-> "check", attempt |-> 0, sent |-> FALSE, ret |-> "none"]

Returns(w, r) == [pc |-> "done", attempt |-> 0, sent |-> w.sent, ret |-> r]

\* "while True" for "for attempt in range(max_retries)": the attempt is
\* repeated without being counted.
RetryUncounted(w) == [w EXCEPT !.pc = "check"]

\* "Giving up" followed by the return of the success path: the URI.
RetryStaged(w) ==
    IF w.attempt + 1 < max_retries
    THEN [w EXCEPT !.pc = "check", !.attempt = w.attempt + 1]
    ELSE Returns(w, "uri")

\* The end of a loop body that did not return: backoff sleep, then the next
\* attempt of range(max_retries), or "Giving up" and return None.
Retry(w) ==
    IF w.attempt + 1 < max_retries
    THEN [w EXCEPT !.pc = "check", !.attempt = w.attempt + 1]
    ELSE Returns(w, "None")

\* What one external call leaves: the call, the file, the blob, whether an
\* existence check answered True and whether safe_remove_local was called.
Out(w, f, s, v, c) == [w |-> w, f |-> f, s |-> s, v |-> v, c |-> c]

\* The first check made on the bare file name, without the prefix: it never
\* finds the object.
FirstCheckWrongKey(w, f, s) ==
    {Out(Retry(w), f, s, FALSE, FALSE),
     Out([w EXCEPT !.pc = "upload"], f, s, FALSE, FALSE)}

\* The first check dropped: the transfer follows whatever the bucket holds.
FirstCheckNoSkip(w, f, s) ==
    {Out(Retry(w), f, s, FALSE, FALSE),
     Out([w EXCEPT !.pc = "upload"], f, s, s # "absent", FALSE)}

\* if verify_gcs_upload(...): safe_remove_local; return uri      (first check)
FirstCheck(w, f, s) ==
    {Out(Retry(w), f, s, FALSE, FALSE)}
    \cup IF s # "absent"
         THEN {Out(Returns(w, "uri"), f2, s, TRUE, TRUE) :
                   f2 \in safe_remove_local(f)}
         ELSE {Out([w EXCEPT !.pc = "upload"], f, s, FALSE, FALSE)}

\* The verification dropped: a transfer that returns is taken for a success.
TransferUnverified(w, f, s) ==
    LET c == [w EXCEPT !.sent = TRUE]
    IN IF f = "absent"
       THEN {Out(Retry(c), f, s, FALSE, FALSE)}
       ELSE {Out([c EXCEPT !.pc = "pace"], f, s2, FALSE, FALSE) :
                 s2 \in {f, s}}
            \cup {Out(Retry(c), f, s2, FALSE, FALSE) : s2 \in {f, s}}

\* blob.upload_from_filename(file_path, timeout=600): it returns or raises,
\* and either way the object may or may not have been written.
Transfer(w, f, s) ==
    LET c == [w EXCEPT !.sent = TRUE]
    IN IF f = "absent"
       THEN {Out(Retry(c), f, s, FALSE, FALSE)}
       ELSE {Out([c EXCEPT !.pc = "verify"], f, s2, FALSE, FALSE) :
                 s2 \in {f, s}}
            \cup {Out(Retry(c), f, s2, FALSE, FALSE) : s2 \in {f, s}}

\* An exception of the verification taken for its answer True.
VerifyLenient(w, f, s) ==
    {Out([w EXCEPT !.pc = "pace"], f, s, FALSE, FALSE)}
    \cup IF s # "absent"
         THEN {Out([w EXCEPT !.pc = "pace"], f, s, TRUE, FALSE)}
         ELSE {Out(Retry(w), f, s, FALSE, FALSE)}

\* blob.delete() before the retry when the verification raises or answers
\* False: an object another writer put under the key is removed with it.
VerifyRollback(w, f, s) ==
    {Out(Retry(w), f, "absent", FALSE, FALSE)}
    \cup IF s # "absent"
         THEN {Out([w EXCEPT !.pc = "pace"], f, s, TRUE, FALSE)}
         ELSE {}

\* The answer of the verification ignored: a transfer that returned is a
\* success whatever the check says.
VerifyIgnored(w, f, s) ==
    {Out(Retry(w), f, s, FALSE, FALSE),
     Out([w EXCEPT !.pc = "pace"], f, s, s # "absent", FALSE)}

\* if verify_gcs_upload(...): sleep, safe_remove_local, return  (verification)
Verify(w, f, s) ==
    {Out(Retry(w), f, s, FALSE, FALSE)}
    \cup IF s # "absent"
         THEN {Out([w EXCEPT !.pc = "pace"], f, s, TRUE, FALSE)}
         ELSE {Out(Retry(w), f, s, FALSE, FALSE)}

\* The success path returns without calling safe_remove_local.
PaceNoCleanup(w, f, s) == {Out(Returns(w, "uri"), f, s, FALSE, FALSE)}

\* time.sleep(UPLOAD_SLEEP_SECONDS) is over: safe_remove_local, return uri
Pace(w, f, s) ==
    {Out(Returns(w, "uri"), f2, s, FALSE, TRUE) : f2 \in safe_remove_local(f)}

UploadStep(w, f, s) ==
    CASE w.pc = "check"  -> FirstCheck(w, f, s)
      [] w.pc = "upload" -> Transfer(w, f, s)
      [] w.pc = "verify" -> Verify(w, f, s)
      [] w.pc = "pace"   -> Pace(w, f, s)
      [] OTHER           -> {}

\* ------------------------------------------------------------ initial state
Numeral(n) == IF n < 10 THEN <<n>> ELSE <<n \div 10, n % 10>>

\* Ranges "a-b" that start at the first month or just below it.
RangeExprs ==
    {[form |-> "range", lo |-> Numeral(a), hi |-> Numeral(b)] :
         a \in (MIN_MONTH - 1)..MIN_MONTH, b \in 0..MaxRangeNum}

ListExprs ==
    {[form |-> "list", parts |-> p] :
         p \in SeqsUpTo({Numeral(n) : n \in 0..MaxListNum}, MaxListLen)}

\* Objects left in the bucket by an earlier run: any of the first
\* MaxPreStaged months.
MaxPreStaged == 1

InitStores ==
    {[t \in Tokens |-> IF t \in S THEN "full" ELSE "absent"] :
         S \in SUBSET {Fmt2(m) : m \in 1..MaxPreStaged}}

\* No second run: its record is never read.
NoPeer == [w |-> NewCall, f |-> "absent"]

Idle ==
    /\ infra = "none"
    /\ peer = NoPeer
    /\ months = <<>>
    /\ batchNo = 0
    /\ dl = <<>>
    /\ downloaded_files = <<>>
    /\ up = <<>>
    /\ uploaded_uris = <<>>
    /\ verified = {}
    /\ retrieved = {}
    /\ cleaned = {}
    /\ fetchCalls = 0
    /\ fetchOk = 0
    /\ transfers = 0
    /\ stageCalls = 0
    /\ queue = <<>>
    /\ loads = <<>>
    /\ job = "none"
    /\ success = 0
    /\ exitCode = -1

NoChunk == chunkIn = <<>> /\ chunkSize = 1 /\ chunkOut = <<>>

Init ==
    /\ expr \in RangeExprs \cup ListExprs
    /\ pc = "parse"
    /\ fs = [t \in Tokens |-> "absent"]
    /\ store \in InitStores
    /\ Idle
    /\ NoChunk

chunkVars == <<chunkIn, chunkSize, chunkOut>>
envVars == <<fs, store, verified, retrieved, cleaned, fetchCalls, fetchOk,
             transfers, stageCalls>>
loadVars == <<queue, loads, job>>
batchVars == <<batchNo, dl, downloaded_files, up, uploaded_uris>>

\* uncaught exception or sys.exit(1): the interpreter exits with status 1
Exit(code) == pc' = "done" /\ exitCode' = code

\* ------------------------------------------------------------------- main()
\* months = months_from_args(args.months)
Parse ==
    /\ pc = "parse"
    /\ LET r == months_from_args(expr)
       IN IF r.raised
          THEN Exit(1) /\ UNCHANGED months
          ELSE months' = r.val /\ pc' = "ensure_bucket" /\ UNCHANGED exitCode
    /\ UNCHANGED <<expr, peer, infra, batchVars, envVars, loadVars, success, chunkVars>>

\* The Forbidden handler without its sys.exit(1): the run goes on.
EnsureBucketLenient ==
    /\ pc = "ensure_bucket"
    /\ \E r \in {"exists", "created", "create_raised", "forbidden", "raised"} :
           /\ infra' = IF r \in {"exists", "created"} THEN "bucket" ELSE "failed"
           /\ IF r \in {"exists", "created", "forbidden"}
              THEN pc' = "ensure_dataset" /\ UNCHANGED exitCode
              ELSE Exit(1)
    /\ UNCHANGED <<expr, peer, months, batchVars, envVars, loadVars, success,
                   chunkVars>>

\* ensure_bucket: get_bucket answers; NotFound -> create_bucket, which may
\* raise; Forbidden -> sys.exit(1); any other exception is not caught.
EnsureBucket ==
    /\ pc = "ensure_bucket"
    /\ \E r \in {"exists", "created", "create_raised", "forbidden", "raised"} :
           IF r \in {"exists", "created"}
           THEN pc' = "ensure_dataset" /\ infra' = "bucket" /\ UNCHANGED exitCode
           ELSE Exit(1) /\ infra' = "failed"
    /\ UNCHANGED <<expr, peer, months, batchVars, envVars, loadVars, success,
                   chunkVars>>

\* ensure_bq_dataset: get_dataset answers; NotFound -> create_dataset, which
\* may raise; nothing else is caught.
EnsureDataset ==
    /\ pc = "ensure_dataset"
    /\ \E r \in {"exists", "created", "create_raised", "raised"} :
           IF r \in {"exists", "created"}
           THEN pc' = "batch" /\ infra' = "ready" /\ UNCHANGED exitCode
           ELSE Exit(1) /\ infra' = "failed"
    /\ UNCHANGED <<expr, peer, months, batchVars, envVars, loadVars, success,
                   chunkVars>>

Batches == chunked(months, BATCH_SIZE)

\* ThreadPoolExecutor(max_workers=n): tasks start in submission order, at
\* most n at a time, so task i runs iff fewer than n unfinished tasks were
\* submitted before it.
Runs(unfinished, i, n) == Cardinality({j \in unfinished : j < i}) < n

\* The paths downloaded so far, of the items submitted.  The scripts append
\* them in completion order and read that order only to submit the uploads;
\* here the list is kept in submission order.
Collected(items, d) ==
    LET got == {i \in DOMAIN d : d[i] = "path"}
        nth(k) == CHOOSE i \in got : Cardinality({j \in got : j < i}) = k - 1
    IN [k \in 1..Cardinality(got) |-> items[nth(k)]]

\* for month_batch in chunked(months, size=3): submit the downloads
NextBatch ==
    /\ pc = "batch"
    /\ batchNo < Len(Batches)
    /\ batchNo' = batchNo + 1
    /\ dl' = [i \in 1..Len(Batches[batchNo + 1]) |-> "pending"]
    /\ downloaded_files' = <<>>
    /\ up' = <<>>
    /\ pc' = "download"
    /\ UNCHANGED <<expr, peer, infra, exitCode, months, uploaded_uris, envVars, loadVars,
                   success, chunkVars>>

\* What a download_file call on the path of m leaves behind.
Fetched(m, o) ==
    /\ fs' = [fs EXCEPT ![m] = o.f]
    /\ retrieved' = IF o.ret = "path" THEN retrieved \cup {m} ELSE retrieved
    /\ fetchCalls' = fetchCalls + 1
    /\ fetchOk' = fetchOk + (IF o.ret = "path" THEN 1 ELSE 0)
    /\ transfers' = transfers + o.calls

\* What the external calls of upload_to_gcs on the path and blob of m leave
\* behind.
Staged(m, o) ==
    /\ fs' = [fs EXCEPT ![m] = o.f]
    /\ store' = [store EXCEPT ![m] = o.s]
    /\ verified' = IF o.v THEN verified \cup {m} ELSE verified
    /\ cleaned' = IF o.c THEN cleaned \cup {m} ELSE cleaned
    /\ stageCalls' = stageCalls + (IF o.w.pc = "done" THEN 1 ELSE 0)

\* A download worker runs download_file for position i of the batch; the
\* main thread appends the path in completion order.
Download(i) ==
    /\ pc = "download"
    /\ i \in DOMAIN dl
    /\ dl[i] = "pending"
    /\ Runs({j \in DOMAIN dl : dl[j] = "pending"}, i, MAX_DOWNLOAD_WORKERS)
    /\ LET m == Batches[batchNo][i]
       IN \E o \in download_file(fs[m]) :
              /\ dl' = [dl EXCEPT ![i] = o.ret]
              /\ downloaded_files' =
                     Collected(Batches[batchNo], [dl EXCEPT ![i] = o.ret])
              /\ Fetched(m, o)
    /\ UNCHANGED <<expr, peer, infra, pc, exitCode, months, batchNo, up, uploaded_uris,
                   store, verified, cleaned, stageCalls, loadVars, success,
                   chunkVars>>

\* The uploads submitted at the first download that completes, not after
\* the pool is joined.
DownloadsDoneEarly ==
    /\ pc = "download"
    /\ \E i \in DOMAIN dl : dl[i] # "pending"
    /\ IF downloaded_files = <<>>
       THEN pc' = "batch" /\ up' = up
       ELSE /\ pc' = "upload"
            /\ up' = [i \in 1..Len(downloaded_files) |-> NewCall]
    /\ UNCHANGED <<expr, peer, infra, exitCode, months, batchNo, dl,
                   downloaded_files, uploaded_uris, envVars, loadVars,
                   success, chunkVars>>

\* "sys.exit(1)" for "continue": an empty batch ends the run.
DownloadsDoneOrExit ==
    /\ pc = "download"
    /\ \A i \in DOMAIN dl : dl[i] # "pending"
    /\ IF downloaded_files = <<>>
       THEN Exit(1) /\ up' = up
       ELSE /\ pc' = "upload"
            /\ up' = [i \in 1..Len(downloaded_files) |-> NewCall]
            /\ UNCHANGED exitCode
    /\ UNCHANGED <<expr, peer, infra, months, batchNo, dl, downloaded_files,
                   uploaded_uris, envVars, loadVars, success, chunkVars>>

\* The download pool is joined: skip the batch, or submit the uploads.
DownloadsDone ==
    /\ pc = "download"
    /\ \A i \in DOMAIN dl : dl[i] # "pending"
    /\ IF downloaded_files = <<>>
       THEN pc' = "batch" /\ up' = up
       ELSE /\ pc' = "upload"
            /\ up' = [i \in 1..Len(downloaded_files) |-> NewCall]
    /\ UNCHANGED <<expr, peer, infra, exitCode, months, batchNo, dl, downloaded_files,
                   uploaded_uris, envVars, loadVars, success, chunkVars>>

\* An upload worker makes the next external call of upload_to_gcs for
\* position i; the main thread appends a returned URI in completion order.
Upload(i) ==
    /\ pc = "upload"
    /\ i \in DOMAIN up
    /\ Runs({j \in DOMAIN up : up[j].pc # "done"}, i, MAX_UPLOAD_WORKERS)
    /\ LET m == downloaded_files[i]
       IN \E o \in UploadStep(up[i], fs[m], store[m]) :
              /\ up' = [up EXCEPT ![i] = o.w]
              /\ Staged(m, o)
              /\ uploaded_uris' = IF o.w.ret = "uri"
                                  THEN Append(uploaded_uris, m)
                                  ELSE uploaded_uris
    /\ UNCHANGED <<expr, peer, infra, pc, exitCode, months, batchNo, dl, downloaded_files,
                   retrieved, fetchCalls, fetchOk, transfers,
                   loadVars, success,
                   chunkVars>>

\* The load loop indented into the batch loop: what is staged so far is
\* loaded at the end of each batch.
UploadsDoneLoading ==
    /\ pc = "upload"
    /\ \A i \in DOMAIN up : up[i].pc = "done"
    /\ pc' = "load"
    /\ queue' = sorted(uploaded_uris)
    /\ dl' = <<>>
    /\ up' = <<>>
    /\ UNCHANGED <<expr, peer, infra, exitCode, months, batchNo,
                   downloaded_files, uploaded_uris, envVars, loads, job,
                   success, chunkVars>>

\* The upload pool is joined: "Batch completed", next iteration.
UploadsDone ==
    /\ pc = "upload"
    /\ \A i \in DOMAIN up : up[i].pc = "done"
    /\ pc' = "batch"
    /\ dl' = <<>>
    /\ up' = <<>>
    /\ UNCHANGED <<expr, peer, infra, exitCode, months, batchNo, downloaded_files,
                   uploaded_uris, envVars, loadVars, success, chunkVars>>

\* After the for loop: sys.exit(1) if nothing was uploaded, else start the
\* loop over sorted(uploaded_uris).
BatchesDone ==
    /\ pc = "batch"
    /\ batchNo = Len(Batches)
    /\ IF uploaded_uris = <<>>
       THEN Exit(1) /\ UNCHANGED queue
       ELSE queue' = sorted(uploaded_uris) /\ pc' = "load"
            /\ UNCHANGED exitCode
    /\ UNCHANGED <<expr, peer, infra, months, batchVars, envVars, loads, job, success,
                   chunkVars>>

\* load_csv_to_bq: load_table_from_uri submits the job for the next URI.
LoadStart ==
    /\ pc = "load"
    /\ Len(loads) < Len(queue)
    /\ loads' = Append(loads, queue[Len(loads) + 1])
    /\ job' = "running"
    /\ pc' = "wait"
    /\ UNCHANGED <<expr, peer, infra, exitCode, months, batchVars, envVars, queue, success,
                   chunkVars>>

\* The warehouse ends the job.
JobEnds ==
    /\ job = "running"
    /\ job' \in {"done", "failed"}
    /\ UNCHANGED <<expr, peer, infra, pc, exitCode, months, batchVars, envVars, queue,
                   loads, success, chunkVars>>

\* The exception of a load caught and tallied: the loop goes on.
LoadReturnTallied ==
    /\ pc = "wait"
    /\ job \in {"done", "failed"}
    /\ job' = "none"
    /\ pc' = "load"
    /\ UNCHANGED <<expr, peer, infra, exitCode, months, batchVars, envVars, queue, loads,
                   success, chunkVars>>

\* load_job.result() returns or raises; get_table reads the row count or
\* raises; an exception leaves main().
LoadReturn ==
    /\ pc = "wait"
    /\ \/ /\ job = "done"
          /\ job' = "none"
          /\ pc' = "load"
          /\ UNCHANGED exitCode
       \/ /\ job \in {"done", "failed"}
          /\ Exit(1)
          /\ UNCHANGED job
    /\ UNCHANGED <<expr, peer, infra, months, batchVars, envVars, queue, loads, success,
                   chunkVars>>

\* The load loop is over: "Done", exit status 0.
Finish ==
    /\ pc = "load"
    /\ Len(loads) = Len(queue)
    /\ Exit(0)
    /\ UNCHANGED <<expr, peer, infra, months, batchVars, envVars, loadVars, success,
                   chunkVars>>

Next ==
    \/ Parse
    \/ EnsureBucket
    \/ EnsureDataset
    \/ NextBatch
    \/ \E i \in 1..BATCH_SIZE : Download(i)
    \/ DownloadsDone
    \/ \E i \in 1..BATCH_SIZE : Upload(i)
    \/ UploadsDone
    \/ BatchesDone
    \/ LoadStart
    \/ JobEnds
    \/ LoadReturn
    \/ Finish

Spec == Init /\ [][Next]_vars

\* ------------------------------------------------------- chunked on its own
InitChunk ==
    /\ chunkIn \in SeqsUpTo({Fmt2(1), Fmt2(2)}, MaxChunkLen)
    /\ chunkSize \in 1..MaxChunkSize
    /\ chunkOut = <<>>
    /\ pc = "chunk"
    /\ expr = [form |-> "list", parts |-> <<>>]
    /\ fs = [t \in Tokens |-> "absent"]
    /\ store = [t \in Tokens |-> "absent"]
    /\ Idle

\* list(chunked(lst, size))
ChunkCall ==
    /\ pc = "chunk"
    /\ chunkOut' = chunked(chunkIn, chunkSize)
    /\ pc' = "chunked"
    /\ UNCHANGED <<expr, peer, infra, exitCode, months, batchVars, envVars, loadVars,
                   success, chunkIn, chunkSize>>

NextChunk == ChunkCall

SpecChunk == InitChunk /\ [][NextChunk]_vars

\* ------------------------------------- load-yellow-taxi-data.py, __main__
\* The homework script: MONTHS is fixed, there are no batches and no loads.
\* Its download_file and upload_to_gcs are those of the pipeline, except that
\* upload_to_gcs returns True and False for the URI and None.
MONTHS == [i \in 1..HW_LAST_MONTH |-> Fmt2(i)]

\* One whole call of upload_to_gcs: every way its external calls can go.
\* The months of MONTHS are distinct, so no other task touches the file or
\* the blob of a call while it runs.
RECURSIVE RunCall(_)
RunCall(o) ==
    IF o.w.pc = "done" THEN {o}
    ELSE UNION {RunCall(Out(n.w, n.f, n.s, o.v \/ n.v, o.c \/ n.c)) :
                    n \in UploadStep(o.w, o.f, o.s)}

Contents == {"absent", "empty", "partial", "full"}

\* upload_to_gcs(file_path) from its first line to its return, by the
\* content of the file and of the blob when it is called.
upload_to_gcs ==
    [f \in Contents, s \in Contents |-> RunCall(Out(NewCall, f, s, FALSE, FALSE))]

InitHW ==
    /\ expr = [form |-> "list", parts |-> <<>>]
    /\ pc = "hw_bucket"
    /\ infra = "none"
    /\ peer = NoPeer
    /\ fs = [t \in Tokens |-> "absent"]
    /\ store \in InitStores
    /\ months = MONTHS
    /\ batchNo = 0
    /\ dl = [i \in 1..Len(MONTHS) |-> "pending"]
    /\ downloaded_files = <<>>
    /\ up = <<>>
    /\ uploaded_uris = <<>>
    /\ verified = {}
    /\ retrieved = {}
    /\ cleaned = {}
    /\ fetchCalls = 0
    /\ fetchOk = 0
    /\ transfers = 0
    /\ stageCalls = 0
    /\ queue = <<>>
    /\ loads = <<>>
    /\ job = "none"
    /\ success = 0
    /\ exitCode = -1
    /\ NoChunk

\* create_bucket: get_bucket and list_buckets answer; the bucket is the
\* project's, or it is not (sys.exit(1)); NotFound -> create_bucket, which
\* may raise; Forbidden -> sys.exit(1); any other exception is not caught.
CreateBucket ==
    /\ pc = "hw_bucket"
    /\ \E r \in {"own", "foreign", "created", "create_raised", "forbidden",
                 "raised"} :
           IF r \in {"own", "created"}
           THEN pc' = "hw_download" /\ infra' = "ready" /\ UNCHANGED exitCode
           ELSE Exit(1) /\ infra' = "failed"
    /\ UNCHANGED <<expr, peer, months, batchVars, envVars, loadVars, success,
                   chunkVars>>

HwDownload(i) ==
    /\ pc = "hw_download"
    /\ i \in DOMAIN dl
    /\ dl[i] = "pending"
    /\ Runs({j \in DOMAIN dl : dl[j] = "pending"}, i, MAX_DOWNLOAD_WORKERS)
    /\ \E o \in download_file(fs[MONTHS[i]]) :
           /\ dl' = [dl EXCEPT ![i] = o.ret]
           /\ downloaded_files' = Collected(MONTHS, [dl EXCEPT ![i] = o.ret])
           /\ Fetched(MONTHS[i], o)
    /\ UNCHANGED <<expr, peer, infra, pc, exitCode, months, batchNo, up, uploaded_uris,
                   store, verified, cleaned, stageCalls, loadVars, success,
                   chunkVars>>

\* if not downloaded_files: sys.exit(1); else submit the uploads
HwDownloadsDone ==
    /\ pc = "hw_download"
    /\ \A i \in DOMAIN dl : dl[i] # "pending"
    /\ IF downloaded_files = <<>>
       THEN Exit(1) /\ UNCHANGED up
       ELSE /\ pc' = "hw_upload"
            /\ up' = [i \in 1..Len(downloaded_files) |-> NewCall]
            /\ UNCHANGED exitCode
    /\ UNCHANGED <<expr, peer, infra, months, batchNo, dl, downloaded_files,
                   uploaded_uris, envVars, loadVars, success, chunkVars>>

\* ok = fut.result(); success += int(ok)
HwUpload(i) ==
    /\ pc = "hw_upload"
    /\ i \in DOMAIN up
    /\ up[i] = NewCall
    /\ Runs({j \in DOMAIN up : up[j].pc # "done"}, i, MAX_UPLOAD_WORKERS)
    /\ LET m == downloaded_files[i]
       IN \E o \in upload_to_gcs[fs[m], store[m]] :
              /\ up' = [up EXCEPT ![i] = o.w]
              /\ Staged(m, o)
              /\ success' = success + (IF o.w.ret = "uri" THEN 1 ELSE 0)
    /\ UNCHANGED <<expr, peer, infra, pc, exitCode, months, batchNo, dl, downloaded_files,
                   uploaded_uris, retrieved, fetchCalls, fetchOk, transfers,
                   loadVars,
                   chunkVars>>

\* "All files processed": the script ends, exit status 0.
HwUploadsDone ==
    /\ pc = "hw_upload"
    /\ \A i \in DOMAIN up : up[i].pc = "done"
    /\ Exit(0)
    /\ UNCHANGED <<expr, peer, infra, months, batchVars, envVars, loadVars, success,
                   chunkVars>>

NextHW ==
    \/ CreateBucket
    \/ \E i \in 1..HW_LAST_MONTH : HwDownload(i)
    \/ HwDownloadsDone
    \/ \E i \in 1..HW_LAST_MONTH : HwUpload(i)
    \/ HwUploadsDone

SpecHW == InitHW /\ [][NextHW]_vars

\* -------------------------------------- two runs staging the same item
\* A second run of the script, started elsewhere with its own directory and
\* the same bucket and prefix, is in upload_to_gcs for the first month while
\* this run works through a range that holds it.
MaxRaceNum == 1

KEY == Fmt2(MIN_MONTH)

InitRace ==
    /\ expr \in {[form |-> "range", lo |-> Numeral(MIN_MONTH), hi |-> Numeral(b)] :
                     b \in MIN_MONTH..MaxRaceNum}
    /\ pc = "parse"
    /\ infra = "none"
    /\ peer = [w |-> NewCall, f |-> "full"]
    /\ fs = [t \in Tokens |-> "absent"]
    /\ store = [t \in Tokens |-> "absent"]
    /\ months = <<>>
    /\ batchNo = 0
    /\ dl = <<>>
    /\ downloaded_files = <<>>
    /\ up = <<>>
    /\ uploaded_uris = <<>>
    /\ verified = {}
    /\ retrieved = {}
    /\ cleaned = {}
    /\ fetchCalls = 0
    /\ fetchOk = 0
    /\ transfers = 0
    /\ stageCalls = 0
    /\ queue = <<>>
    /\ loads = <<>>
    /\ job = "none"
    /\ success = 0
    /\ exitCode = -1
    /\ NoChunk

\* The second run's worker makes the next external call of its
\* upload_to_gcs call, on its own file and the shared key.
PeerStep ==
    /\ peer.w.pc # "done"
    /\ \E o \in UploadStep(peer.w, peer.f, store[KEY]) :
           /\ peer' = [w |-> o.w, f |-> o.f]
           /\ store' = [store EXCEPT ![KEY] = o.s]
    /\ UNCHANGED <<expr, infra, pc, exitCode, months, batchVars, fs, verified,
                   retrieved, cleaned, fetchCalls, fetchOk, transfers,
                   stageCalls, loadVars, success, chunkVars>>

NextRace == Next \/ PeerStep

SpecRace == InitRace /\ [][NextRace]_vars

\* ------------------------------------------------ months_from_args on its own
\* Numerals of up to MaxDigits digits 0..MaxDigit (with or without leading
\* zeros, the empty string included) and lists of up to MaxParseParts parts.
MaxDigit == 2
MaxDigits == 2
MaxParseParts == 2

InitParse ==
    /\ LET num == SeqsUpTo(0..MaxDigit, MaxDigits)
       IN expr \in {[form |-> "range", lo |-> a, hi |-> b] : a \in num, b \in num}
                   \cup {[form |-> "list", parts |-> p] :
                             p \in SeqsUpTo(num, MaxParseParts)}
    /\ pc = "parse"
    /\ fs = [t \in Tokens |-> "absent"]
    /\ store = [t \in Tokens |-> "absent"]
    /\ Idle
    /\ NoChunk

NextParse == Parse

SpecParse == InitParse /\ [][NextParse]_vars

\* ------------------------------------- a run over what an earlier run left
\* Largest end written in the range expression of such a run, and the
\* number of months whose local file an earlier run may have left (whole,
\* cut short or empty).
MaxRerunNum == 2
MaxRerunFiles == 1

InitRerun ==
    /\ expr \in {[form |-> "range", lo |-> Numeral(MIN_MONTH), hi |-> Numeral(b)] :
                     b \in MIN_MONTH..MaxRerunNum}
    /\ pc = "parse"
    /\ fs \in {[t \in Tokens |-> IF t \in DOMAIN g THEN g[t] ELSE "absent"] :
                  g \in [{Fmt2(m) : m \in 1..MaxRerunFiles} -> Contents]}
    /\ store \in InitStores
    /\ Idle
    /\ NoChunk

SpecRerun == InitRerun /\ [][Next]_vars

\* ------------------------------------------------ a run in which nothing fails
\* Largest end written in a range expression of the runs in which no
\* external call fails.
MaxOkRangeNum == 6

InitOK ==
    /\ expr \in {[form |-> "range", lo |-> Numeral(MIN_MONTH), hi |-> Numeral(b)] :
                     b \in 0..MaxOkRangeNum} \cup ListExprs
    /\ pc = "parse"
    /\ fs = [t \in Tokens |-> "absent"]
    /\ store \in InitStores
    /\ Idle
    /\ NoChunk

\* The step has no external call that fails: get_bucket / get_dataset /
\* create_* do not raise, download_file returns the path, an existence check
\* answers, upload_from_filename writes the object and returns, os.remove
\* removes the file, the load job ends DONE and get_table answers.
OkStep ==
    /\ infra' # "failed"
    /\ job' # "failed"
    /\ pc = "wait" => pc' # "done"
    /\ fetchOk' - fetchOk = fetchCalls' - fetchCalls
    /\ (pc = "upload" /\ pc' = "upload") =>
           \A i \in DOMAIN up :
               up'[i] # up[i] =>
                   /\ up'[i].attempt = 0
                   /\ up'[i].ret # "None"
                   /\ up[i].pc = "upload" =>
                          store'[downloaded_files[i]] = fs[downloaded_files[i]]
                   /\ up'[i].ret = "uri" =>
                          fs'[downloaded_files[i]] = "absent"

NextOK == Next /\ OkStep

\* Every thread of the pools and the main thread keep running.
SpecOK == InitOK /\ [][NextOK]_vars /\ WF_vars(NextOK)

\* ================================================================== claims
IsSorted(q) == \A i, j \in 1..Len(q) : i < j => TokLeq(q[i], q[j])

Count(x, q) == Cardinality({i \in 1..Len(q) : q[i] = x})

SameItems(p, q) == \A t \in Tokens : Count(t, p) = Count(t, q)

RECURSIVE Flatten(_)
Flatten(ss) == IF ss = <<>> THEN <<>> ELSE Head(ss) \o Flatten(Tail(ss))

\* The upload pool of a batch is at work, before and after the step.
Uploading == pc = "upload" /\ pc' = "upload"

\* The step is the existence check at the head of an attempt of call i, and
\* the check answered (it did not raise).
CheckAnswered(i) ==
    /\ up[i].pc = "check"
    /\ up'[i] # up[i]
    /\ up'[i] # Retry(up[i])

\* The batch loop is over: the run is loading, or it ended after the loop.
PastBatches ==
    \/ pc \in {"load", "wait"}
    \/ pc = "done" /\ batchNo > 0

\* C1 (as amended): when the existence check at the head of an attempt finds
\* the key, upload_to_gcs returns the URI at once, without a transfer and
\* without touching the bucket, and calls safe_remove_local, which removes
\* the local copy unless os.remove raises; a call reaches the transfer only
\* from a check of the same attempt that found the key absent, and transfers
\* are made nowhere else.
C1_IdempotentStaging ==
    [][Uploading =>
          \A i \in DOMAIN up :
              LET m == downloaded_files[i]
              IN /\ (CheckAnswered(i) /\ store[m] # "absent") =>
                        /\ up'[i].ret = "uri"
                        /\ up'[i].sent = up[i].sent
                        /\ store' = store
                        /\ m \in cleaned'
                        /\ fs'[m] \in {"absent", fs[m]}
                        /\ uploaded_uris' = Append(uploaded_uris, m)
                 /\ (up'[i].pc = "upload" /\ up[i].pc # "upload") =>
                        /\ up[i].pc = "check"
                        /\ store[m] = "absent"
                        /\ up'[i].attempt = up[i].attempt
                 /\ (up'[i].sent /\ ~up[i].sent) => up[i].pc = "upload"
                 /\ (store'[m] # store[m]) =>
                        \E j \in DOMAIN up :
                            downloaded_files[j] = m /\ up[j].pc = "upload"]_vars

\* C1 witness: a call has returned the URI of a key it found in the bucket,
\* having made no transfer, and the local copy is gone.
C1_Witness ==
    /\ pc = "upload"
    /\ \E i \in DOMAIN up :
           /\ up[i].ret = "uri"
           /\ ~up[i].sent
           /\ fs[downloaded_files[i]] = "absent"
           /\ store[downloaded_files[i]] = "full"

\* C1 as stated: ... and the local copy is deleted whenever the first check
\* finds the key.
C1_AsStated ==
    [][Uploading =>
          \A i \in DOMAIN up :
              LET m == downloaded_files[i]
              IN (CheckAnswered(i) /\ store[m] # "absent") =>
                     /\ up'[i].ret = "uri"
                     /\ up'[i].sent = up[i].sent
                     /\ fs'[m] = "absent"]_vars

\* How far a call of upload_to_gcs has got: four external calls an attempt.
Stage(w) ==
    CASE w.pc = "check"  -> 0
      [] w.pc = "upload" -> 1
      [] w.pc = "verify" -> 2
      [] w.pc = "pace"   -> 3
      [] OTHER           -> 0

Progress(w) == IF w.pc = "done" THEN 4 * max_retries
               ELSE 4 * w.attempt + Stage(w)

\* C2: whatever the bucket answers, a call of upload_to_gcs starts at most
\* max_retries attempts, every step it takes moves it forward in the loop
\* (so it ends within 4 * max_retries external calls), a call that has not
\* returned can always take its next step, and it returns None only from
\* its last attempt.
C2_RetryBound ==
    [][Uploading =>
          \A i \in DOMAIN up :
              LET m == downloaded_files[i]
              IN /\ up[i].attempt \in 0..(max_retries - 1)
                 /\ up'[i].attempt \in 0..(max_retries - 1)
                 /\ up'[i] # up[i] => Progress(up'[i]) > Progress(up[i])
                 /\ up[i].pc # "done" =>
                        UploadStep(up[i], fs[m], store[m]) # {}
                 /\ (up'[i].ret = "None" /\ up[i].ret = "none") =>
                        up[i].attempt = max_retries - 1]_vars

\* C2 witness: a call gave up after transfers that did not verify.
C2_Witness ==
    /\ pc = "upload"
    /\ \E i \in DOMAIN up : up[i].ret = "None" /\ up[i].sent

Staging(m) ==
    /\ pc = "upload"
    /\ \E i \in DOMAIN up : downloaded_files[i] = m /\ up[i].pc # "done"

\* C3 (as amended): a retrieved local file is gone only if safe_remove_local
\* was called on it; safe_remove_local is called on exactly the paths on
\* which upload_to_gcs returns the URI, and only after an existence check on
\* the key answered True.  (The removal itself may fail: os.remove raising
\* is swallowed, and the file then stays although its key is verified.)
C3_DeletedOnlyIfVerified ==
    \A m \in retrieved :
        /\ fs[m] = "absent" => m \in cleaned
        /\ m \in cleaned <=> m \in Range(uploaded_uris)
        /\ m \in cleaned => m \in verified

\* C3 witness: a retrieved file was removed after its key was verified.
C3_Witness ==
    \E m \in retrieved :
        fs[m] = "absent" /\ m \in verified /\ m \in cleaned

\* C3 as stated, read at rest (no call of upload_to_gcs is running on the
\* item): a retrieved local file is gone iff a check found its key.
C3_AsStated ==
    \A m \in retrieved :
        ~Staging(m) => (fs[m] = "absent" <=> m \in verified)

\* An item with a local file and an object that no existence check has seen.
DualCopy(m) ==
    /\ m \in retrieved
    /\ fs[m] # "absent"
    /\ store[m] # "absent"
    /\ m \notin verified

C5_BatchPartition ==
    pc = "chunked" =>
        /\ Flatten(chunkOut) = chunkIn
        /\ \A k \in 1..Len(chunkOut) :
               Len(chunkOut[k]) >= 1 /\ Len(chunkOut[k]) <= chunkSize
        /\ Len(chunkOut) = (Len(chunkIn) + chunkSize - 1) \div chunkSize

\* C5 witness: a list that is not a whole number of chunks was cut.
C5_Witness ==
    /\ pc = "chunked"
    /\ Len(chunkOut) >= 2
    /\ Len(chunkOut[Len(chunkOut)]) < chunkSize

\* C6: the loads are issued one at a time in ascending order of the key,
\* whatever the order in which the uploads completed: the loads issued are
\* sorted and are the head of one fixed sorted arrangement of the staged
\* URIs, a job is only ever running while main waits for it, and a run that
\* ends with status 0 has issued exactly that arrangement.
C6_SortedLoads ==
    /\ IsSorted(loads)
    /\ job = "running" => pc = "wait"
    /\ pc \in {"load", "wait"} =>
           /\ SameItems(queue, uploaded_uris)
           /\ Len(loads) <= Len(queue)
           /\ loads = SubSeq(queue, 1, Len(loads))
    /\ (pc = "done" /\ exitCode = 0) =>
           IsSorted(loads) /\ SameItems(loads, uploaded_uris)

\* C6 witness: the uploads completed out of key order and every load ran.
C6_Witness ==
    /\ pc = "done"
    /\ exitCode = 0
    /\ Len(loads) >= 3
    /\ ~IsSorted(uploaded_uris)

\* C7 as stated: in a run where no load fails, every distinct staged
\* artifact is loaded exactly once.
C7_AsStated ==
    (pc = "done" /\ exitCode = 0) =>
        \A m \in Range(uploaded_uris) : Count(m, loads) = 1

\* C8 as stated, for the homework script: the exit status is non-zero iff
\* nothing was retrieved or nothing was staged.
C8_AsStated ==
    pc = "done" => (exitCode # 0 <=> (fetchOk = 0 \/ success = 0))

\* C9: a failed download_file or upload_to_gcs never ends the run: the run
\* ends with status 1 only before the first batch (arguments, bucket,
\* dataset), after the last batch with nothing staged at all, or on a load
\* that raised; past the batch loop every item of every batch has had its
\* download_file call and every path returned has had its upload_to_gcs
\* call; and a run that ends with status 0 has loaded every URI returned.
C9_FailureIsolation ==
    /\ (pc = "done" /\ exitCode = 1) =>
           \/ batchNo = 0
           \/ batchNo = Len(Batches) /\ uploaded_uris = <<>>
           \/ batchNo = Len(Batches) /\ job \in {"done", "failed"}
    /\ PastBatches =>
           /\ batchNo = Len(Batches)
           /\ fetchCalls = Len(months)
           /\ stageCalls = fetchOk
    /\ (pc = "done" /\ exitCode = 0) =>
           \A m \in Range(uploaded_uris) : m \in Range(loads)

\* C9 witness: one item failed retrieval, another's staging gave up, and an
\* item of the second batch was loaded in a run that ended with status 0.
C9_Witness ==
    /\ pc = "done"
    /\ exitCode = 0
    /\ fetchCalls > fetchOk
    /\ stageCalls > Len(uploaded_uris)
    /\ Len(Batches) = 2
    /\ \E m \in Range(Batches[2]) : m \in Range(loads)

\* C10: a load is issued only when main is at the head of the load loop
\* with no job outstanding, and main then waits for that job; once a job
\* has failed no load is issued any more, the job is not run again, and the
\* process ends with status 1.
C10_LoadFailureFatal ==
    [][/\ loads' # loads =>
              /\ pc = "load" /\ job = "none"
              /\ pc' = "wait" /\ job' = "running"
              /\ Len(loads') = Len(loads) + 1
       /\ job = "running" => pc = "wait" /\ pc' = "wait" /\ loads' = loads
       /\ job = "failed" =>
              /\ loads' = loads
              /\ job' = "failed"
              /\ pc' \in {"wait", "done"}
              /\ exitCode' \in {-1, 1}
              /\ pc' = "done" => exitCode' = 1]_vars

\* C10 witness: a load failed with URIs still to load and the run ended
\* with status 1.
C10_Witness ==
    /\ pc = "done"
    /\ job = "failed"
    /\ exitCode = 1
    /\ Len(loads) < Len(queue)

\* The local files of the run: paths download_file returned that still exist.
Resident == {m \in retrieved : fs[m] # "absent"}

\* C11 as stated: in every reachable state at most one batch's worth of
\* local files of the run is on disk, also when the staging of an earlier
\* batch's items gave up.
C11_AsStated == Cardinality(Resident) <= BATCH_SIZE

\* Two positions of the running pool hold the same month, hence the same
\* local path and the same key.
SharedByUploads ==
    \E i, j \in DOMAIN up :
        /\ i < j
        /\ downloaded_files[i] = downloaded_files[j]
        /\ up[i].pc \notin {"check", "done"}
        /\ up[j].pc \notin {"check", "done"}

\* C12 as stated: whatever accepted period expression the run was given, no
\* two upload workers that are past their first check and have not returned
\* work on the same local path and key.
C12_AsStated == pc = "upload" => ~SharedByUploads

\* The period expression is accepted and names at least one item.
Accepted ==
    LET r == months_from_args(expr) IN ~r.raised /\ Len(r.val) >= 1

\* A transfer is due on a path that another worker on the same item has
\* removed: upload_from_filename can only raise.
TransferMustRaise ==
    /\ pc = "upload"
    /\ \E i \in DOMAIN up :
           up[i].pc = "upload" /\ fs[downloaded_files[i]] = "absent"

\* The run over the N items of months ended with N URIs staged, N loads in
\* ascending order, no local file left and status 0.
EndedWell ==
    /\ pc = "done"
    /\ exitCode = 0
    /\ Len(months) >= 1
    /\ SameItems(uploaded_uris, months)
    /\ SameItems(loads, months)
    /\ IsSorted(loads)
    /\ \A m \in Range(months) :
           /\ store[m] # "absent"
           /\ m \in cleaned
           /\ fs[m] = "absent"

C14_VerifiedSuccessOnly ==
    [][Uploading =>
          \A i \in DOMAIN up :
              LET m == downloaded_files[i]
                  w == up[i]
                  x == up'[i]
              IN /\ (x.ret = "uri" /\ w.ret = "none") =>
                        \/ w.pc = "check" /\ store[m] # "absent"
                                          /\ m \in verified'
                        \/ w.pc = "pace" /\ m \in verified
                 /\ (x.pc = "pace" /\ w.pc # "pace") =>
                        /\ w.pc = "verify"
                        /\ store[m] # "absent"
                        /\ x.attempt = w.attempt
                        /\ m \in verified'
                 /\ (w.pc = "verify" /\ x # w /\ store[m] = "absent") =>
                        /\ x = Retry(w)
                        /\ uploaded_uris' = uploaded_uris
                        /\ fs' = fs
                        /\ verified' = verified]_vars

\* C14 witness: a transfer was made, no object is in the bucket, and the
\* call is in a later attempt with its local file still there.
C14_Witness ==
    /\ pc = "upload"
    /\ \E i \in DOMAIN up :
           /\ up[i].pc = "check"
           /\ up[i].attempt >= 1
           /\ up[i].sent
           /\ store[downloaded_files[i]] = "absent"
           /\ fs[downloaded_files[i]] = "full"

\* C15: a call of upload_to_gcs whose last attempt ends without a verified
\* object returns None; that return appends nothing to uploaded_uris; no
\* step of a call other than a return of the URI removes or changes a local
\* file or calls safe_remove_local; and only URIs that upload_to_gcs
\* returned are ever loaded.
C15_ExhaustionOutcome ==
    [][/\ Uploading =>
              \A i \in DOMAIN up :
                  LET m == downloaded_files[i]
                      w == up[i]
                      x == up'[i]
                  IN /\ (x.ret = "None" /\ w.ret = "none") =>
                            /\ w.attempt = max_retries - 1
                            /\ uploaded_uris' = uploaded_uris
                            /\ stageCalls' = stageCalls + 1
                     /\ (x # w /\ x.ret # "uri") =>
                            fs' = fs /\ cleaned' = cleaned
                     /\ (/\ x # w
                         /\ w.attempt = max_retries - 1
                         /\ x.pc \in {"check", "done"}
                         /\ w.pc # "pace"
                         /\ ~(w.pc = "check" /\ store[m] # "absent")) =>
                            x.ret = "None"
       /\ loads' # loads =>
              loads'[Len(loads')] \in Range(uploaded_uris)]_vars

\* C15 witness: a run ended with status 0 in which the staging of a
\* retrieved item gave up: its file is on disk and it was not loaded.
C15_Witness ==
    /\ pc = "done"
    /\ exitCode = 0
    /\ \E m \in retrieved :
           /\ m \notin Range(uploaded_uris)
           /\ m \notin Range(loads)
           /\ m \notin cleaned
           /\ fs[m] = "full"

\* No download_file, upload_to_gcs or load call has been made.
NoWork ==
    /\ fetchCalls = 0
    /\ transfers = 0
    /\ stageCalls = 0
    /\ up = <<>>
    /\ uploaded_uris = <<>>
    /\ loads = <<>>
    /\ job = "none"
    /\ retrieved = {}
    /\ verified = {}
    /\ \A t \in Tokens : fs[t] = "absent"

\* C16: when ensure_bucket or ensure_bq_dataset fails (sys.exit(1) on
\* Forbidden, or an exception of get_* / create_* that nothing catches) the
\* process has ended with status 1 and no download_file, upload_to_gcs or
\* load call was made; and no such call is made, nor a batch started, before
\* both checks have returned.
C16_InfraFirst ==
    /\ infra = "failed" => pc = "done" /\ exitCode = 1 /\ NoWork
    /\ infra # "ready" => NoWork /\ batchNo = 0 /\ dl = <<>>
    /\ pc \in {"batch", "download", "upload", "load", "wait"} =>
           infra = "ready"
    /\ pc = "ensure_dataset" => infra = "bucket"

\* C16 witness: a run whose period expression named items ended on a failed
\* infrastructure check.
C16_Witness ==
    /\ pc = "done"
    /\ infra = "failed"
    /\ Len(months) >= 1
    /\ exitCode = 1

\* C17: download_file is called once for each item and makes at most one
\* urlretrieve call; an item whose call returned None gets no upload_to_gcs
\* call and no load: the uploads submitted are those of the paths returned,
\* and there are never more upload calls or loads than paths returned.
C17_NoRetryAtRetrieval ==
    /\ transfers <= fetchCalls
    /\ fetchCalls <= Len(months)
    /\ fetchOk <= fetchCalls
    /\ stageCalls <= fetchOk
    /\ Len(uploaded_uris) <= fetchOk
    /\ Len(loads) <= fetchOk
    /\ pc = "upload" =>
           /\ Len(up) = Cardinality({i \in DOMAIN dl : dl[i] = "path"})
           /\ Len(up) = Len(downloaded_files)

\* C17 witness: a run ended with status 0 in which a download failed after
\* its one urlretrieve and the other items were staged and loaded.
C17_Witness ==
    /\ pc = "done"
    /\ exitCode = 0
    /\ fetchCalls = Len(months)
    /\ transfers = fetchCalls
    /\ fetchOk < fetchCalls
    /\ stageCalls = fetchOk
    /\ Len(loads) = fetchOk

\* The step is the return of the download_file call of position i.
DownloadReturns(i) ==
    /\ pc = "download"
    /\ i \in DOMAIN dl
    /\ dl[i] = "pending"
    /\ dl' # dl
    /\ dl'[i] # "pending"

\* C18: a download_file call that finds its path with a size above zero
\* returns the path, makes no urlretrieve call and leaves every file as it
\* is; a call that finds the path absent or of size zero makes exactly one
\* urlretrieve call, and where it returns the path the file is whole.
C18_SkipFetch ==
    [][\A i \in 1..BATCH_SIZE :
           DownloadReturns(i) =>
               LET m == Batches[batchNo][i]
               IN IF fs[m] \in {"partial", "full"}
                  THEN /\ dl'[i] = "path"
                       /\ transfers' = transfers
                       /\ fs' = fs
                  ELSE /\ transfers' = transfers + 1
                       /\ dl'[i] = "path" => fs'[m] = "full"
                       /\ \A t \in Tokens \ {m} : fs'[t] = fs[t]]_vars

\* C18 witness: of two calls that returned their paths one found its file
\* and one fetched it.
C18_Witness ==
    /\ pc = "download"
    /\ fetchCalls = 2
    /\ fetchOk = 2
    /\ transfers = 1

Paths(d) == {i \in DOMAIN d : d[i] = "path"}

\* C19: while a download of the batch is outstanding no upload_to_gcs call
\* exists; the uploads of a batch are submitted for exactly the paths its
\* downloads returned, after all of them returned; and while batch k+1 is
\* downloading, every item of the batches before it has had its
\* download_file call and every path they returned its upload_to_gcs call,
\* all of which have returned.
C19_StageOrdering ==
    /\ (\E i \in DOMAIN dl : dl[i] = "pending") =>
           pc = "download" /\ up = <<>>
    /\ (\E i \in DOMAIN up : up[i].pc # "done") => pc = "upload"
    /\ pc = "upload" =>
           /\ DOMAIN dl = DOMAIN Batches[batchNo]
           /\ \A i \in DOMAIN dl : dl[i] # "pending"
           /\ downloaded_files = Collected(Batches[batchNo], dl)
           /\ DOMAIN up = DOMAIN downloaded_files
    /\ pc = "download" =>
           /\ up = <<>>
           /\ fetchCalls = BATCH_SIZE * (batchNo - 1)
                           + Cardinality({i \in DOMAIN dl : dl[i] # "pending"})
           /\ stageCalls = fetchOk - Cardinality(Paths(dl))

\* C19 witness: the second batch is downloading after uploads of the first.
C19_Witness ==
    /\ pc = "download"
    /\ batchNo = 2
    /\ stageCalls >= 2
    /\ fetchCalls > BATCH_SIZE

\* The numbers written in the period expression (empty parts of a list are
\* dropped) are all within 1..12 and, for a range, in order.
InRange(n) == 1 <= n /\ n <= 12

Written(e) == SelectSeq(e.parts, LAMBDA p : Len(p) > 0)

WellFormed(e) ==
    IF e.form = "range"
    THEN /\ Len(e.lo) > 0
         /\ Len(e.hi) > 0
         /\ InRange(int(e.lo))
         /\ InRange(int(e.hi))
         /\ int(e.lo) <= int(e.hi)
    ELSE \A k \in 1..Len(Written(e)) : InRange(int(Written(e)[k]))

\* C20: months_from_args returns only when every number of the expression
\* is within 1..12 and a range is in order, and otherwise raises, which ends
\* the run with status 1 before any work; what it returns are two-digit
\* tokens of 01..12: for a range a-b the months a..b ascending, for a list
\* its numbers in the order written, with or without leading zeros.
C20_PeriodExpansion ==
    /\ pc = "done" =>
           /\ ~WellFormed(expr)
           /\ exitCode = 1
           /\ months = <<>>
           /\ infra = "none"
           /\ NoWork
    /\ pc = "ensure_bucket" =>
           /\ WellFormed(expr)
           /\ \A k \in 1..Len(months) :
                  /\ Len(months[k]) = 2
                  /\ months[k][1] \in 0..9
                  /\ months[k][2] \in 0..9
                  /\ InRange(int(months[k]))
           /\ IF expr.form = "range"
              THEN /\ Len(months) = int(expr.hi) - int(expr.lo) + 1
                   /\ \A k \in 1..Len(months) :
                          int(months[k]) = int(expr.lo) + k - 1
              ELSE /\ Len(months) = Len(Written(expr))
                   /\ \A k \in 1..Len(months) :
                          int(months[k]) = int(Written(expr)[k])

\* C20 witness: a range written with leading zeros that ends at 12 was
\* expanded.
C20_Witness ==
    /\ pc = "ensure_bucket"
    /\ expr.form = "range"
    /\ Len(expr.lo) = 2
    /\ expr.lo[1] = 0
    /\ int(expr.hi) = 12
    /\ Len(months) >= 2

\* The position of this run's upload_to_gcs call on the shared key, while
\* the call exists.
Mine ==
    {i \in DOMAIN up \cap DOMAIN downloaded_files :
         pc = "upload" /\ downloaded_files[i] = KEY}

\* A step of a call from c to d is an existence check on the present key,
\* made after the call's transfer, that did not raise; d is where it leads.
AnsweredPresent(c, d) ==
    /\ c.sent
    /\ c.pc \in {"check", "verify"}
    /\ store[KEY] # "absent"
    /\ d # c
    /\ d # Retry(c)

\* C21: two runs may both find the key absent and both transfer to it (the
\* witness below is reached); in every interleaving the key, once written
\* by either run, stays (no step of either run removes an object), a run
\* that returns the URI leaves the key present, and a run whose existence
\* check answers after its transfer goes on to return the URI in that
\* attempt.
C21_RaceIsBenign ==
    [][/\ store[KEY] # "absent" => store'[KEY] # "absent"
       /\ (peer'.w.ret = "uri" \/ KEY \in Range(uploaded_uris')) =>
              store'[KEY] # "absent"
       /\ AnsweredPresent(peer.w, peer'.w) =>
              peer'.w.pc = "pace" \/ peer'.w.ret = "uri"
       /\ (peer.w.pc = "pace" /\ peer'.w # peer.w) => peer'.w.ret = "uri"
       /\ pc' = "upload" =>
              \A i \in Mine :
                  /\ AnsweredPresent(up[i], up'[i]) =>
                         up'[i].pc = "pace" \/ up'[i].ret = "uri"
                  /\ (up[i].pc = "pace" /\ up'[i] # up[i]) =>
                         /\ up'[i].ret = "uri"
                         /\ KEY \in Range(uploaded_uris')]_vars

\* C21 witness: both runs found the key absent, both made a transfer, and
\* both returned the URI.
C21_Witness ==
    /\ pc = "upload"
    /\ up # <<>>
    /\ downloaded_files[1] = KEY
    /\ up[1].sent
    /\ up[1].ret = "uri"
    /\ peer.w.sent
    /\ peer.w.ret = "uri"
    /\ store[KEY] = "full"

\* A load has been issued or the load loop has been entered.
Loading == loads # <<>> \/ job # "none" \/ pc \in {"load", "wait"}

\* C22: when the load loop is entered or a load has been issued, the batch
\* loop is over: every batch was taken, no download_file or upload_to_gcs
\* call is outstanding, every item has had its download_file call and every
\* path returned its upload_to_gcs call.  Every URI loaded was returned by
\* upload_to_gcs in this run, after an existence check on its key answered
\* True, for a path download_file returned; no URI is loaded more often
\* than upload_to_gcs returned it, so an item whose fetch failed or whose
\* staging gave up is not loaded.
C22_LoadGating ==
    /\ Loading =>
           /\ batchNo = Len(Batches)
           /\ \A i \in DOMAIN dl : dl[i] # "pending"
           /\ \A i \in DOMAIN up : up[i].pc = "done"
           /\ fetchCalls = Len(months)
           /\ stageCalls = fetchOk
           /\ queue = sorted(uploaded_uris)
    /\ \A m \in Range(loads) :
           /\ m \in retrieved
           /\ m \in verified
           /\ store[m] # "absent"
    /\ \A m \in Tokens : Count(m, loads) <= Count(m, uploaded_uris)
    /\ Len(uploaded_uris) <= stageCalls

\* C22 witness: a load is running after two batches in which one download
\* failed and the staging of one path gave up.
C22_Witness ==
    /\ pc = "wait"
    /\ job = "running"
    /\ batchNo = 2
    /\ fetchOk < fetchCalls
    /\ Len(uploaded_uris) < stageCalls
    /\ Len(loads) >= 1

\* The step is the transfer of the upload_to_gcs call of position i.
Transfers(i) ==
    /\ i \in DOMAIN up
    /\ up[i].pc = "upload"
    /\ up'[i] # up[i]

\* C23 (as amended): in a run over items of which an earlier run staged
\* some, no transfer is made for a key that is in the bucket, no object in
\* the bucket is changed or removed, a call returns the URI of a key it
\* found without having made a transfer, transfers go to absent keys only,
\* and the run ends with safe_remove_local called on the path of every key
\* an existence check found (which removes the file unless os.remove
\* raised).
C23_RerunIdempotence ==
    [][/\ \A m \in Tokens : store[m] # "absent" => store'[m] = store[m]
       /\ Uploading =>
              \A i \in DOMAIN up :
                  LET m == downloaded_files[i]
                  IN /\ Transfers(i) => store[m] = "absent"
                     /\ (CheckAnswered(i) /\ store[m] # "absent") =>
                            /\ up'[i].ret = "uri"
                            /\ up'[i].sent = up[i].sent
                            /\ m \in cleaned'
       /\ pc' = "done" => \A m \in verified' : m \in cleaned']_vars

\* C23 witness: the first item was in the bucket and is returned without a
\* transfer, the second was not and is uploaded; neither file is left.
C23_Witness ==
    /\ pc = "upload"
    /\ downloaded_files = <<Fmt2(1), Fmt2(2)>>
    /\ up[1].ret = "uri"
    /\ ~up[1].sent
    /\ up[2].ret = "uri"
    /\ up[2].sent
    /\ fs[Fmt2(1)] = "absent"
    /\ fs[Fmt2(2)] = "absent"

\* C23 as stated, its last part: the run ends with no local file for any
\* item whose key an existence check found.
C23_AsStated ==
    pc = "done" => \A m \in verified : fs[m] = "absent"

\* C24: every path download_file returns names a file a transfer wrote
\* whole, so that no file cut short by a failed transfer is returned, in
\* the run of the failure or by the existence test of a later run, and no
\* such file is staged or loaded.
C24_CompleteArtifact ==
    /\ pc = "download" =>
           \A i \in DOMAIN dl :
               dl[i] = "path" => fs[Batches[batchNo][i]] = "full"
    /\ \A m \in Tokens : store[m] # "partial"
    /\ \A k \in DOMAIN loads : store[loads[k]] = "full"

====
